---- MODULE Spec2Model ----
(***************************************************************************)
(* Treasury curve screener (src/screener_v3_chat.py): the ZN/ZT spread,    *)
(* its rolling statistics, the lazy-grind filter, the entry screener and   *)
(* the position monitor.                                                   *)
(*                                                                         *)
(* Numbers.  The script computes in IEEE doubles (pandas / numpy).  The    *)
(* model computes in exact arithmetic and keeps the three special values  *)
(* of IEEE arithmetic: a float is NaN, +Inf, -Inf or the finite real       *)
(*     p + q * sqrt(s)          p, q, s rationals, s >= 0                  *)
(* which is closed under everything the script does: the only square root *)
(* it takes is the rolling standard deviation, and every value derived    *)
(* from one row uses that row's deviation alone.  Comparisons with NaN    *)
(* are false and x / 0 is NaN or an infinity, as in numpy.                 *)
(***************************************************************************)
EXTENDS Integers, Sequences, FiniteSets, TLC

VARIABLES
    data,            \* the downloaded closes after dropna (lines 33-42): Seq of [ZN, ZT]
    bars,            \* how many dates the provider has added since Init
    pc,              \* where the script is: "idle", "loaded", "screened", "monitored", "error"
    df,              \* load_data()'s frame, one row per date (kept by st.cache_data)
    today,           \* df.iloc[-1]
    has_pos,         \* the sidebar toggle
    signal,          \* MODE 1: the signal string
    entry_exec,      \* MODE 2: the sidebar's entry value
    direction,       \* MODE 2: 1 long, -1 short
    curve_exec,      \* MODE 2: the spread in dollars
    unreal_pnl,      \* MODE 2
    exec_per_signal, \* MODE 2
    tp_exec,         \* MODE 2
    stop_exec        \* MODE 2

vars == <<data, bars, pc, df, today, has_pos, signal, entry_exec, direction,
          curve_exec, unreal_pnl, exec_per_signal, tp_exec, stop_exec>>

(***************************************************************************)
(* Exact rationals [n, d], d > 0, in lowest terms.                         *)
(***************************************************************************)
Abs(n) == IF n < 0 THEN -n ELSE n

RECURSIVE GCD(_, _)
GCD(a, b) == IF b = 0 THEN a ELSE GCD(b, a % b)

Rat(n, d) ==
    LET g == GCD(Abs(n), Abs(d))
        s == IF d < 0 THEN -1 ELSE 1
    IN  [n |-> s * (n \div g), d |-> s * (d \div g)]

RZero == [n |-> 0, d |-> 1]

ROne == [n |-> 1, d |-> 1]

RNeg(a) == [n |-> -a.n, d |-> a.d]

RAdd(a, b) ==
    IF a.d = b.d /\ a.d = 1 THEN [n |-> a.n + b.n, d |-> 1]
    ELSE LET g == GCD(a.d, b.d)
         IN  Rat(a.n * (b.d \div g) + b.n * (a.d \div g), a.d * (b.d \div g))

RSub(a, b) == RAdd(a, RNeg(b))

RMul(a, b) ==
    IF a.n = 0 \/ b.n = 0 THEN RZero
    ELSE IF a.d = 1 /\ b.d = 1 THEN [n |-> a.n * b.n, d |-> 1]
    ELSE LET g1 == GCD(Abs(a.n), b.d)
             g2 == GCD(Abs(b.n), a.d)
         IN  [n |-> (a.n \div g1) * (b.n \div g2), d |-> (a.d \div g2) * (b.d \div g1)]

RInv(a) == IF a.n < 0 THEN [n |-> -a.d, d |-> -a.n] ELSE [n |-> a.d, d |-> a.n]

RSgn(a) == IF a.n > 0 THEN 1 ELSE IF a.n < 0 THEN -1 ELSE 0

(***************************************************************************)
(* Floats.                                                                 *)
(***************************************************************************)
NaN == [k |-> "nan", p |-> RZero, q |-> RZero, s |-> RZero]

PInf == [k |-> "pinf", p |-> RZero, q |-> RZero, s |-> RZero]

NInf == [k |-> "ninf", p |-> RZero, q |-> RZero, s |-> RZero]

\* A variable the script has not assigned yet.
Unset == [k |-> "unset", p |-> RZero, q |-> RZero, s |-> RZero]

Fin(p, q, s) ==
    IF q.n = 0 \/ s.n = 0 THEN [k |-> "fin", p |-> p, q |-> RZero, s |-> RZero]
    ELSE [k |-> "fin", p |-> p, q |-> q, s |-> s]

FR(n, d) == Fin(Rat(n, d), RZero, RZero)

FInt(n) == [k |-> "fin", p |-> [n |-> n, d |-> 1], q |-> RZero, s |-> RZero]

IsNaN(x) == x.k = "nan"

IsFin(x) == x.k = "fin"

\* The sign of x: -1, 0 or 1 (0 for NaN, which callers exclude first).
FSgn(x) ==
    IF x.k = "pinf" THEN 1
    ELSE IF x.k = "ninf" THEN -1
    ELSE IF x.k # "fin" THEN 0
    ELSE IF x.q.n = 0 THEN RSgn(x.p)
    ELSE LET sp == RSgn(x.p)
             sq == RSgn(x.q)
         IN  IF sq = 0 THEN sp
             ELSE IF sp = 0 \/ sp = sq THEN sq
             ELSE LET c == RSgn(RSub(RMul(x.p, x.p), RMul(RMul(x.q, x.s), x.q)))
                  IN  IF c > 0 THEN sp ELSE IF c < 0 THEN sq ELSE 0

FNeg(x) ==
    IF x.k = "pinf" THEN NInf
    ELSE IF x.k = "ninf" THEN PInf
    ELSE IF x.k # "fin" THEN NaN
    ELSE [k |-> "fin", p |-> RNeg(x.p), q |-> RNeg(x.q), s |-> x.s]

FAdd(x, y) ==
    IF x.k = "fin" /\ y.k = "fin"
    THEN IF x.q.n = 0 /\ y.q.n = 0
         THEN [k |-> "fin", p |-> RAdd(x.p, y.p), q |-> RZero, s |-> RZero]
         ELSE Fin(RAdd(x.p, y.p), RAdd(x.q, y.q), IF x.q.n # 0 THEN x.s ELSE y.s)
    ELSE IF x.k \notin {"fin", "pinf", "ninf"} \/ y.k \notin {"fin", "pinf", "ninf"} THEN NaN
    ELSE IF x.k = "fin" THEN y
    ELSE IF y.k = "fin" \/ y.k = x.k THEN x
    ELSE NaN

FSub(x, y) == FAdd(x, FNeg(y))

FMul(x, y) ==
    IF x.k = "fin" /\ y.k = "fin"
    THEN IF x.q.n = 0 /\ y.q.n = 0
         THEN [k |-> "fin", p |-> RMul(x.p, y.p), q |-> RZero, s |-> RZero]
         ELSE
         LET s == IF x.q.n # 0 THEN x.s ELSE y.s
         IN  Fin(RAdd(RMul(x.p, y.p), RMul(RMul(x.q, y.q), s)),
                 RAdd(RMul(x.p, y.q), RMul(x.q, y.p)), s)
    ELSE IF x.k \notin {"fin", "pinf", "ninf"} \/ y.k \notin {"fin", "pinf", "ninf"} THEN NaN
    ELSE LET sg == FSgn(x) * FSgn(y)
         IN  IF sg > 0 THEN PInf ELSE IF sg < 0 THEN NInf ELSE NaN

\* 1 / y for a finite y # 0: the conjugate over the norm.
FInv(y) ==
    LET norm == RSub(RMul(y.p, y.p), RMul(RMul(y.q, y.s), y.q))
        inv  == RInv(norm)
    IN  Fin(RMul(y.p, inv), RNeg(RMul(y.q, inv)), y.s)

\* numpy's float division: x / 0 is NaN for x = 0 and an infinity otherwise.
FDiv(x, y) ==
    IF x.k \notin {"fin", "pinf", "ninf"} \/ y.k \notin {"fin", "pinf", "ninf"} THEN NaN
    ELSE IF x.k # "fin" /\ y.k # "fin" THEN NaN
    ELSE IF y.k # "fin" THEN FInt(0)
    ELSE IF FSgn(y) = 0
         THEN (IF FSgn(x) > 0 THEN PInf ELSE IF FSgn(x) < 0 THEN NInf ELSE NaN)
    ELSE IF x.k # "fin"
         THEN (IF FSgn(x) * FSgn(y) > 0 THEN PInf ELSE NInf)
    ELSE FMul(x, FInv(y))

FAbs(x) == IF FSgn(x) < 0 THEN FNeg(x) ELSE x

\* The square root of a rational float (the only kind the script takes).
FSqrt(x) ==
    IF x.k = "pinf" THEN PInf
    ELSE IF x.k # "fin" \/ FSgn(x) < 0 THEN NaN
    ELSE IF FSgn(x) = 0 THEN FInt(0)
    ELSE Fin(RZero, ROne, x.p)

\* Comparisons: false as soon as one side is NaN.
FLt(x, y) ==
    /\ x.k \in {"fin", "pinf", "ninf"} /\ y.k \in {"fin", "pinf", "ninf"}
    /\ FSgn(FSub(x, y)) < 0

FGt(x, y) == FLt(y, x)

FEq(x, y) ==
    /\ x.k \in {"fin", "pinf", "ninf"} /\ y.k \in {"fin", "pinf", "ninf"}
    /\ IF x.k = "fin" /\ y.k = "fin" THEN FSgn(FSub(x, y)) = 0 ELSE x.k = y.k

(***************************************************************************)
(* APP CONFIG & PARAMETERS (lines 11-19).                                 *)
(***************************************************************************)
ZN_WEIGHT == FInt(1)

ZT_WEIGHT == FInt(3)

Z_LOOKBACK == 120

Z_ENTRY == FR(3, 2)

Z_STOP == FR(11, 5)

ATR_THRESHOLD == FR(13, 100)

SLOPE_LOOKBACK == 5

SLOPE_CAP == FR(1, 10)

REAL_WORLD_MULTIPLIER == 2000

(***************************************************************************)
(* pandas: rolling windows and diff.                                       *)
(***************************************************************************)
\* Inclusive prefix sums of a sequence of integers: those of s[lo..hi], each
\* raised by base.
RECURSIVE Prefix(_, _, _, _)
Prefix(s, lo, hi, base) ==
    IF lo > hi THEN <<>>
    ELSE IF lo = hi THEN <<base + s[lo]>>
    ELSE LET mid  == (lo + hi) \div 2
             left == Prefix(s, lo, mid, base)
         IN  left \o Prefix(s, mid + 1, hi, left[Len(left)])

Scan(s) == Prefix(s, 1, Len(s), 0)

\* The sum of the w entries of the window ending at i, from the prefix sums P.
WinSum(P, w, i) == IF i = w THEN P[i] ELSE P[i] - P[i - w]

\* The integer value of a float that holds an integer (prices are whole
\* numbers of price units in this model, so curve and tr are too).
Num(x) == IF x.k = "fin" THEN x.p.n ELSE 0

\* col.rolling(...): the running sums the windows of a column are read from:
\* of its values, of their squares, and of its NaN count.
Rolling(col) ==
    [sum  |-> Scan([i \in 1..Len(col) |-> Num(col[i])]),
     sq   |-> Scan([i \in 1..Len(col) |-> Num(col[i]) * Num(col[i])]),
     miss |-> Scan([i \in 1..Len(col) |-> IF col[i].k = "fin" THEN 0 ELSE 1])]

\* A rolling mean that is not causal: the window of row i ends one date later
\* whenever a later date exists (a centred / shifted window).
RollingMeanAhead(r, w) ==
    [i \in 1..Len(r.sum) |->
        LET j == IF i < Len(r.sum) THEN i + 1 ELSE i
        IN  IF j < w \/ WinSum(r.miss, w, j) > 0 THEN NaN
            ELSE FR(WinSum(r.sum, w, j), w)]

\* .rolling(w).mean(): NaN until the window holds w values, none of them NaN.
RollingMean(r, w) ==
    [i \in 1..Len(r.sum) |->
        IF i < w \/ WinSum(r.miss, w, i) > 0 THEN NaN
        ELSE FR(WinSum(r.sum, w, i), w)]

\* .rolling(w).std(): the sample standard deviation (ddof = 1) of the window.
RollingStd(r, w) ==
    [i \in 1..Len(r.sum) |->
        IF i < w \/ WinSum(r.miss, w, i) > 0 THEN NaN
        ELSE FSqrt(FR(w * WinSum(r.sq, w, i) - WinSum(r.sum, w, i) * WinSum(r.sum, w, i),
                      w * (w - 1)))]

\* A diff that reaches one row too far back.
DiffLate(col, k) ==
    [i \in 1..Len(col) |-> IF i <= k + 1 THEN NaN ELSE FSub(col[i], col[i - k - 1])]

\* col.diff(k): col[i] - col[i - k], NaN for the first k rows.
Diff(col, k) ==
    [i \in 1..Len(col) |-> IF i <= k THEN NaN ELSE FSub(col[i], col[i - k])]

(***************************************************************************)
(* load_data (lines 44-60).                                                *)
(***************************************************************************)
\* The filter with the ATR comparison made inclusive.
is_lazy_grind_incl(curve, ma200, atr, ma200_slope) ==
    /\ FGt(curve, ma200)
    /\ ~FGt(atr, ATR_THRESHOLD) /\ ~IsNaN(atr)
    /\ FGt(ma200_slope, FInt(0))
    /\ FLt(ma200_slope, SLOPE_CAP)

is_lazy_grind(curve, ma200, atr, ma200_slope) ==
    /\ FGt(curve, ma200)
    /\ FLt(atr, ATR_THRESHOLD)
    /\ FGt(ma200_slope, FInt(0))
    /\ FLt(ma200_slope, SLOPE_CAP)

zscore(curve, ma_z, std_z) == FDiv(FSub(curve, ma_z), std_z)

load_data(d) ==
    LET n     == Len(d)
        curve == SubSeq([i \in 1..n |->
                     FSub(FMul(ZN_WEIGHT, d[i].ZN), FMul(ZT_WEIGHT, d[i].ZT))], 1, n)
        tr    == SubSeq([i \in 1..n |-> FAbs(Diff(curve, 1)[i])], 1, n)
        atr   == RollingMean(Rolling(tr), 20)
        rc    == Rolling(curve)
        ma_z  == RollingMean(rc, Z_LOOKBACK)
        std_z == RollingStd(rc, Z_LOOKBACK)
        ma200 == SubSeq(RollingMean(rc, 200), 1, n)
        slope == Diff(ma200, SLOPE_LOOKBACK)
    IN  SubSeq([i \in 1..n |->
            [ZN |-> d[i].ZN, ZT |-> d[i].ZT,
             curve |-> curve[i], tr |-> tr[i], atr |-> atr[i],
             ma_z |-> ma_z[i], std_z |-> std_z[i],
             z |-> zscore(curve[i], ma_z[i], std_z[i]),
             ma200 |-> ma200[i], ma200_slope |-> slope[i],
             is_lazy_grind |-> is_lazy_grind(curve[i], ma200[i], atr[i], slope[i])]],
        1, n)

NoRow ==
    [ZN |-> Unset, ZT |-> Unset, curve |-> Unset, tr |-> Unset, atr |-> Unset,
     ma_z |-> Unset, std_z |-> Unset, z |-> Unset, ma200 |-> Unset,
     ma200_slope |-> Unset, is_lazy_grind |-> FALSE]

(***************************************************************************)
(* Bounds of the model.                                                    *)
(***************************************************************************)
MaxNewBars == 2

\* The closes <<ZN, ZT>> a date can bring, in whole price units:
\* curve = ZN - 3 ZT is 0, 1 or -1.
Closes == {<<6, 2>>, <<7, 2>>, <<2, 1>>}

Bar(c) == [ZN |-> FInt(c[1]), ZT |-> FInt(c[2])]

\* The histories the provider starts from: a flat curve (at 0 or at 1) whose
\* length is just short of one of the windows of load_data.
InitLens == {0, 20 - 1, Z_LOOKBACK - 1, 200 - 1, 200 + SLOPE_LOOKBACK - 1}

Flat(c, n) == [i \in 1..n |-> Bar(c)]

Init ==
    /\ \E n \in InitLens : \E c \in {<<6, 2>>, <<7, 2>>} : data = Flat(c, n)
    /\ bars = 0
    /\ pc = "idle"
    /\ df = <<>>
    /\ today = NoRow
    /\ has_pos = FALSE
    /\ signal = "unset"
    /\ entry_exec = Unset
    /\ direction = 0
    /\ curve_exec = Unset
    /\ unreal_pnl = Unset
    /\ exec_per_signal = Unset
    /\ tp_exec = Unset
    /\ stop_exec = Unset

\* The provider has one more trading date.
NewBar ==
    /\ pc # "loaded"
    /\ bars < MaxNewBars
    /\ \E c \in Closes : data' = Append(data, Bar(c))
    /\ bars' = bars + 1
    /\ UNCHANGED <<pc, df, today, has_pos, signal, entry_exec, direction,
                   curve_exec, unreal_pnl, exec_per_signal, tp_exec, stop_exec>>

\* A run of the script, lines 63-68: df = load_data(); today = df.iloc[-1].
\* load_data is cached for an hour (line 28): a run within the hour of an
\* earlier one gets that run's frame back, whatever the provider has added.
\* iloc[-1] on an empty frame raises, which st.error reports before st.stop().
Load ==
    /\ pc # "loaded"
    /\ \E hit \in BOOLEAN :
          /\ hit => pc # "idle"
          /\ df' = IF hit THEN df ELSE load_data(data)
    /\ IF Len(df') = 0
       THEN pc' = "error" /\ today' = NoRow
       ELSE pc' = "loaded" /\ today' = df'[Len(df')]
    /\ has_pos' = FALSE
    /\ signal' = "unset"
    /\ entry_exec' = Unset
    /\ direction' = 0
    /\ curve_exec' = Unset
    /\ unreal_pnl' = Unset
    /\ exec_per_signal' = Unset
    /\ tp_exec' = Unset
    /\ stop_exec' = Unset
    /\ UNCHANGED <<data, bars>>

(***************************************************************************)
(* MODE 1: ENTRY SCREENER (lines 79-107).                                  *)
(***************************************************************************)
NO_TRADE == "NO TRADE"

LONG_FLATTENER == "LONG FLATTENER (2 ZN / -3 ZT)"

SHORT_BLOCKED == "SHORT STEEPENER - BLOCKED (Lazy Grind)"

SHORT_STEEPENER == "SHORT STEEPENER (-2 ZN / 3 ZT)"

\* The screener with inclusive thresholds.
EntrySignalIncl(z, lazy) ==
    IF FLt(z, FNeg(Z_ENTRY)) \/ FEq(z, FNeg(Z_ENTRY)) THEN LONG_FLATTENER
    ELSE IF FGt(z, Z_ENTRY) \/ FEq(z, Z_ENTRY)
         THEN (IF lazy THEN SHORT_BLOCKED ELSE SHORT_STEEPENER)
    ELSE NO_TRADE

\* Lines 82-89.
EntrySignal(z, lazy) ==
    IF FLt(z, FNeg(Z_ENTRY)) THEN LONG_FLATTENER
    ELSE IF FGt(z, Z_ENTRY)
         THEN (IF lazy THEN SHORT_BLOCKED ELSE SHORT_STEEPENER)
    ELSE NO_TRADE

Screener ==
    /\ pc = "loaded"
    /\ has_pos' = FALSE
    /\ signal' = EntrySignal(today.z, today.is_lazy_grind)
    /\ pc' = "screened"
    /\ UNCHANGED <<data, bars, df, today, entry_exec, direction, curve_exec,
                   unreal_pnl, exec_per_signal, tp_exec, stop_exec>>

(***************************************************************************)
(* MODE 2: POSITION MONITOR (lines 112-155).                               *)
(***************************************************************************)
\* The dollar spread as 2 ZN against 3 ZT at $1000 a point.
CurveExecUnweighted(ZN, ZT) ==
    FMul(FSub(FMul(FInt(2), ZN), FMul(FInt(3), ZT)), FInt(1000))

\* Line 126.
CurveExec(ZN, ZT) ==
    FMul(FSub(FMul(FInt(2), ZN), FMul(FMul(FInt(3), ZT), FInt(2))), FInt(1000))

\* The PnL with the short side's sign forgotten.
UnrealPnlOneSided(ce, entry, dir) == FSub(ce, entry)

\* Line 128.
UnrealPnl(ce, entry, dir) == IF dir = 1 THEN FSub(ce, entry) ELSE FSub(entry, ce)

\* Lines 130-135.
DzTp(dir, z_now) == IF dir = 1 THEN FSub(FInt(0), z_now) ELSE FSub(FInt(-1), z_now)

\* The stops with their signs exchanged.
DzStopSwapped(dir, z_now) == IF dir = 1 THEN FSub(Z_STOP, z_now) ELSE FSub(FNeg(Z_STOP), z_now)

DzStop(dir, z_now) == IF dir = 1 THEN FSub(FNeg(Z_STOP), z_now) ELSE FSub(Z_STOP, z_now)

\* Line 137.
ExecPerSignal(ce, curve_now) == FDiv(ce, curve_now)

\* Lines 138-139: curve_exec + dz * sigma * exec_per_signal.
ExitLevel(ce, dz, sigma, eps) == FAdd(ce, FMul(FMul(dz, sigma), eps))

\* The entry values the sidebar is given, in dollars.
MaxEntry == 1000

Entries == {0, MaxEntry}

Monitor ==
    /\ pc = "loaded"
    /\ has_pos' = TRUE
    /\ \E e \in Entries : entry_exec' = FInt(e)
    /\ \E dir \in {1, -1} : direction' = dir
    /\ curve_exec' = CurveExec(today.ZN, today.ZT)
    /\ unreal_pnl' = UnrealPnl(curve_exec', entry_exec', direction')
    /\ exec_per_signal' = ExecPerSignal(curve_exec', today.curve)
    /\ tp_exec' = ExitLevel(curve_exec', DzTp(direction', today.z),
                            today.std_z, exec_per_signal')
    /\ stop_exec' = ExitLevel(curve_exec', DzStop(direction', today.z),
                              today.std_z, exec_per_signal')
    /\ pc' = "monitored"
    /\ UNCHANGED <<data, bars, df, today, signal>>

Next == NewBar \/ Load \/ Screener \/ Monitor

Spec == Init /\ [][Next]_vars
(***************************************************************************)
(* The screener on its own: every z of a grid around the thresholds, and   *)
(* NaN, with either value of the grind flag.                               *)
(***************************************************************************)
MaxZ10 == 30

ZGrid == {FR(k, 10) : k \in -MaxZ10..MaxZ10} \cup {NaN}

Blank ==
    /\ data = <<>>
    /\ bars = 0
    /\ df = <<>>
    /\ has_pos = FALSE
    /\ signal = "unset"
    /\ entry_exec = Unset
    /\ direction = 0
    /\ curve_exec = Unset
    /\ unreal_pnl = Unset
    /\ exec_per_signal = Unset
    /\ tp_exec = Unset
    /\ stop_exec = Unset

InitSignal ==
    /\ Blank
    /\ pc = "loaded"
    /\ \E z \in ZGrid : \E lazy \in BOOLEAN :
          today = [NoRow EXCEPT !.z = z, !.is_lazy_grind = lazy]

SpecSignal == InitSignal /\ [][Screener]_vars

(***************************************************************************)
(* The grind filter on its own: synthetic rows around each of its four     *)
(* boundaries.                                                             *)
(***************************************************************************)
MaxCenti == 14

Centi == {FR(k, 100) : k \in -1..MaxCenti} \cup {NaN}

Halves == {FR(k, 2) : k \in -1..3} \cup {NaN}

InitGrind ==
    /\ Blank
    /\ pc = "row"
    /\ \E c \in {FInt(0), FInt(1)} : \E t \in Halves : \E a \in Centi : \E sl \in Centi :
          today = [NoRow EXCEPT !.curve = c, !.ma200 = t, !.atr = a, !.ma200_slope = sl]

\* Lines 54-59 on one row.
FlagRow ==
    /\ pc = "row"
    /\ today' = [today EXCEPT !.is_lazy_grind =
                    is_lazy_grind(today.curve, today.ma200, today.atr, today.ma200_slope)]
    /\ pc' = "flagged"
    /\ UNCHANGED <<data, bars, df, has_pos, signal, entry_exec, direction, curve_exec,
                   unreal_pnl, exec_per_signal, tp_exec, stop_exec>>

SpecGrind == InitGrind /\ [][FlagRow]_vars

(***************************************************************************)
(* Properties.                                                             *)
(***************************************************************************)
\* A rational float in tenths / hundredths, for values of the grids above.
Tenths(x) == (x.p.n * 10) \div x.p.d

Hundredths(x) == (x.p.n * 100) \div x.p.d

\* C1: the screener is a total function of (z, grind flag): for a defined z it
\* gives LongFlattener iff z < -1.5, ShortSteepenerBlocked iff z > 1.5 with the
\* flag, ShortSteepener iff z > 1.5 without it, NoTrade otherwise (z = -1.5
\* and z = 1.5 included), and the flag changes nothing when z <= 1.5.
C1_SignalTable ==
    (pc = "screened" /\ IsFin(today.z)) =>
        LET z10 == Tenths(today.z)
            lazy == today.is_lazy_grind
        IN  /\ signal \in {NO_TRADE, LONG_FLATTENER, SHORT_BLOCKED, SHORT_STEEPENER}
            /\ (signal = LONG_FLATTENER) = (z10 < -15)
            /\ (signal = SHORT_BLOCKED) = (z10 > 15 /\ lazy)
            /\ (signal = SHORT_STEEPENER) = (z10 > 15 /\ ~lazy)
            /\ (signal = NO_TRADE) = (z10 >= -15 /\ z10 <= 15)
            /\ (z10 <= 15 => EntrySignal(today.z, ~lazy) = signal)

C1_Witness ==
    /\ pc = "screened"
    /\ today.z = FR(3, 2)
    /\ today.is_lazy_grind
    /\ signal = NO_TRADE

\* C2: is_grind_regime is true iff curve > trend, atr < 0.13, slope > 0 and
\* slope < 0.10 all hold, each comparison strict, so a row that sits on one
\* boundary is not flagged.
C2_GrindIff ==
    pc = "flagged" =>
        (today.is_lazy_grind =
           (/\ IsFin(today.curve) /\ IsFin(today.ma200)
            /\ IsFin(today.atr) /\ IsFin(today.ma200_slope)
            /\ Hundredths(today.curve) > Hundredths(today.ma200)
            /\ Hundredths(today.atr) < 13
            /\ Hundredths(today.ma200_slope) > 0
            /\ Hundredths(today.ma200_slope) < 10))

C2_Witness ==
    /\ pc = "flagged"
    /\ today.curve = FInt(1) /\ today.ma200 = FR(1, 2)
    /\ today.atr = FR(13, 100)
    /\ today.ma200_slope = FR(5, 100)
    /\ ~today.is_lazy_grind

\* C3: with fewer than 120 observations the evaluation fails and no Signal
\* is produced; with 120 or more and a nonzero deviation z is defined and is
\* (curve - mean) / stdev.
C3_NoSignalWithoutLookback ==
    /\ pc = "screened" => Len(df) >= Z_LOOKBACK
    /\ (pc \in {"loaded", "screened", "monitored"} /\ Len(df) >= Z_LOOKBACK
          /\ FSgn(today.std_z) # 0)
        => /\ IsFin(today.z)
           /\ FEq(FMul(today.z, today.std_z), FSub(today.curve, today.ma_z))

\* C4: when the trailing deviation is zero no Signal is derived from z.
C4_NoSignalOnZeroDeviation ==
    pc = "screened" => ~(IsFin(today.std_z) /\ FSgn(today.std_z) = 0)

\* C5: the monitor fails, and outputs no PnL or exit level, when the curve or
\* the deviation is zero or undefined.
C5_MonitorRefusesUndefined ==
    pc = "monitored" =>
        /\ IsFin(today.curve) /\ FSgn(today.curve) # 0
        /\ IsFin(today.std_z) /\ FSgn(today.std_z) # 0

\* C6: the unrealized PnL is curve_exec - entry_exec for a long position and
\* entry_exec - curve_exec for a short one; the two sum to zero.
C6_UnrealPnl ==
    pc = "monitored" =>
        LET ce == 2000 * Num(today.ZN) - 6000 * Num(today.ZT)
            e  == Num(entry_exec)
        IN  /\ direction = 1 => unreal_pnl = FInt(ce - e)
            /\ direction = -1 => unreal_pnl = FInt(e - ce)
            /\ FEq(FAdd(UnrealPnl(curve_exec, entry_exec, 1),
                        UnrealPnl(curve_exec, entry_exec, -1)), FInt(0))

C6_Witness ==
    /\ pc = "monitored"
    /\ direction = -1
    /\ entry_exec = FInt(MaxEntry)
    /\ FSgn(unreal_pnl) > 0

\* C7: the rolling statistics are causal: a frame computed before further
\* dates were appended agrees, row by row, with the frame computed from
\* scratch over the longer history, and its latest point is that row too.
C7_Causal ==
    (Len(df) > 0 /\ Len(data) > Len(df)) =>
        LET full == load_data(data)
        IN  /\ \A i \in 1..Len(df) : full[i] = df[i]
            /\ today = full[Len(df)]

C7_Witness ==
    /\ Len(df) >= 200 + SLOPE_LOOKBACK
    /\ Len(data) > Len(df)
    /\ FSgn(today.std_z) > 0
    /\ data[Len(data)] # data[Len(df)]

\* C8: the dollar spread is the multiplier (2000) times the signal-space
\* spread 1.0 ZN - 3.0 ZT, so the ratio exec_per_signal is 2000 wherever the
\* curve is not zero.
C8_Proportional ==
    pc = "monitored" =>
        LET c == Num(today.ZN) - 3 * Num(today.ZT)
        IN  /\ today.curve = FInt(c)
            /\ curve_exec = FInt(REAL_WORLD_MULTIPLIER * c)
            /\ c # 0 => exec_per_signal = FInt(REAL_WORLD_MULTIPLIER)

C8_Witness ==
    /\ pc = "monitored"
    /\ FSgn(today.curve) < 0
    /\ exec_per_signal = FInt(REAL_WORLD_MULTIPLIER)

\* The rows of the frame, dates counted from 0: the trend is defined from the
\* 200th value on, the slope is undefined before date `first` and is
\* trend[i] - trend[i - 5] from there on.
SlopeDefinedFrom(first) ==
    \A i \in 1..Len(df) :
        /\ IsFin(df[i].ma200) = (i >= 200)
        /\ (i - 1 < first) => IsNaN(df[i].ma200_slope)
        /\ (i - 1 >= first) =>
              /\ IsFin(df[i].ma200_slope)
              /\ df[i].ma200_slope = FSub(df[i].ma200, df[i - SLOPE_LOOKBACK].ma200)

\* C9 as stated: the slope is undefined for every i < 205 and defined from
\* i = 205 on.
C9_SlopeFrom205 == SlopeDefinedFrom(200 + SLOPE_LOOKBACK)

\* C9, amended: the slope is undefined for every i < 204 and is
\* trend[i] - trend[i - 5] for every i >= 204 (dates counted from 0).
C9_SlopeFrom204 == SlopeDefinedFrom(200 + SLOPE_LOOKBACK - 1)

C9_Witness ==
    /\ Len(df) >= 200 + SLOPE_LOOKBACK
    /\ FSgn(df[200 + SLOPE_LOOKBACK].ma200_slope) > 0

\* C10: with a positive deviation and a nonzero curve the exit levels are on
\* the right sides: long, stop < tp and tp - stop = Z_STOP * stdev *
\* exec_per_signal; short, tp < stop and stop - tp = (Z_STOP + 1) * stdev *
\* exec_per_signal, whatever the current z.
C10_ExitSides ==
    (pc = "monitored" /\ FSgn(today.std_z) > 0 /\ FSgn(today.curve) # 0) =>
        LET unit == FMul(today.std_z, exec_per_signal)
        IN  /\ direction = 1 =>
                 /\ FLt(stop_exec, tp_exec)
                 /\ FEq(FSub(tp_exec, stop_exec), FMul(Z_STOP, unit))
            /\ direction = -1 =>
                 /\ FLt(tp_exec, stop_exec)
                 /\ FEq(FSub(stop_exec, tp_exec), FMul(FAdd(Z_STOP, FInt(1)), unit))

C10_Witness ==
    /\ pc = "monitored"
    /\ direction = -1
    /\ FSgn(today.std_z) > 0
    /\ FSgn(today.curve) < 0
    /\ FLt(tp_exec, stop_exec)
====
